---- MODULE Spec2Model ----
(***************************************************************************)
(* Leetbit habit tracker: the store (habits, checkins), the server clock,  *)
(* the request handlers of src/server/src/index.ts and the aggregation     *)
(* functions they call.                                                    *)
(*                                                                         *)
(* A Date object is its epoch day (milliseconds / 86400000; every Date the *)
(* server builds is at UTC midnight).  An ISO date string "YYYY-MM-DD" is   *)
(* the tuple <<y, m, d>>, compared lexicographically as the zero-padded    *)
(* strings are.  A consistency value is held in tenths of a percent        *)
(* (60.0 is 600).                                                          *)
(***************************************************************************)
EXTENDS Integers, Sequences, FiniteSets, TLC

VARIABLES habits, checkins, clock, resp

vars == <<habits, checkins, clock, resp>>

(***************************************************************************)
(* Bounds of the model.                                                    *)
(***************************************************************************)
\* rows the habits table may hold
MaxHabits == 2
\* days the clock may advance past its first day
MaxTicks == 1
\* habits of a snapshot
SnapHabits == 2
\* days a snapshot's dates spread over, after its first day
SnapDays == 2
\* rows the checkins table of a snapshot may hold
MaxCheckins == 2

\* habit names a client may send
Names == {"run", "Run", "read"}
\* years a client may ask a summary for
Years == {2024, 2025}

NULL == <<>>
NoResp == [op |-> "none"]

(***************************************************************************)
(* Calendar: what Date.UTC, toISOString and the Date constructor compute.  *)
(***************************************************************************)
\* epoch day of the civil date y-m-d (proleptic Gregorian, m in 1..12)
DaysFromCivil(y, m, d) ==
  LET yy  == IF m <= 2 THEN y - 1 ELSE y
      era == yy \div 400
      yoe == yy - era * 400
      mp  == IF m > 2 THEN m - 3 ELSE m + 9
      doy == (153 * mp + 2) \div 5 + d - 1
      doe == yoe * 365 + yoe \div 4 - yoe \div 100 + doy
  IN  era * 146097 + doe - 719468

\* civil date <<y, m, d>> of an epoch day
CivilFromDays(z) ==
  LET zz  == z + 719468
      era == zz \div 146097
      doe == zz - era * 146097
      yoe == (doe - doe \div 1460 + doe \div 36524 - doe \div 146096) \div 365
      doy == doe - (365 * yoe + yoe \div 4 - yoe \div 100)
      mp  == (5 * doy + 2) \div 153
      d   == doy - (153 * mp + 2) \div 5 + 1
      m   == IF mp < 10 THEN mp + 3 ELSE mp - 9
      y   == yoe + era * 400
  IN  <<IF m <= 2 THEN y + 1 ELSE y, m, d>>

\* Date.UTC(year, monthZeroBased, day): month and day overflow are normalised
DateUTC(year, monthZeroBased, day) ==
  DaysFromCivil(year + monthZeroBased \div 12, (monthZeroBased % 12) + 1, 1) + (day - 1)

\* lexicographic order of two ISO date strings
IsoLT(a, b) ==
  \/ a[1] < b[1]
  \/ a[1] = b[1] /\ a[2] < b[2]
  \/ a[1] = b[1] /\ a[2] = b[2] /\ a[3] < b[3]

IsoLE(a, b) == a = b \/ IsoLT(a, b)

\* CivilFromDays, evaluated once for the days around the model's clock
ISOTable ==
  [z \in DaysFromCivil(2023, 10, 1)..DaysFromCivil(2024, 4, 30) |-> CivilFromDays(z)]

\* date.toISOString().slice(0, 10)
toISODate(date) == IF date \in DOMAIN ISOTable THEN ISOTable[date] ELSE CivilFromDays(date)

\* new Date(`${date}T00:00:00.000Z`)
fromISODate(iso) == DaysFromCivil(iso[1], iso[2], iso[3])

addDaysUTC(date, days) == date + days

\* Date.prototype.getUTCDay: 0 is Sunday; 1970-01-01 was a Thursday
getUTCDay(date) == (date + 4) % 7

getUTCFullYear(date) == CivilFromDays(date)[1]

\* zero-based month
getUTCMonth(date) == CivilFromDays(date)[2] - 1

startOfISOWeek(date) ==
  LET day  == getUTCDay(date)
      diff == (day + 6) % 7
  IN  addDaysUTC(date, -diff)

endOfISOWeek(date) == addDaysUTC(startOfISOWeek(date), 6)

\* endOfMonthUTC giving the last day but one of the month
endOfMonthUTCShort(year, monthZeroBased) == DateUTC(year, monthZeroBased + 1, 0) - 1

endOfMonthUTC(year, monthZeroBased) == DateUTC(year, monthZeroBased + 1, 0)

dayBeforeISO(dateISO) == toISODate(addDaysUTC(fromISODate(dateISO), -1))

\* isHabitActiveOnDate taking the day of the deletion for an active day
isHabitActiveThroughDeletion(habit, dateISO) ==
  /\ IsoLE(habit.created_at, dateISO)
  /\ (habit.deleted_on = NULL \/ IsoLE(dateISO, habit.deleted_on))

\* isHabitActiveOnDate without the comparison with created_at
isHabitActiveBeforeCreation(habit, dateISO) ==
  habit.deleted_on = NULL \/ IsoLT(dateISO, habit.deleted_on)

isHabitActiveOnDate(habit, dateISO) ==
  /\ IsoLE(habit.created_at, dateISO)
  /\ (habit.deleted_on = NULL \/ IsoLT(dateISO, habit.deleted_on))

(***************************************************************************)
(* The aggregation functions.  They read the tables habits and checkins as *)
(* the queries of the source do.                                           *)
(***************************************************************************)
ZeroSummary == [completed |-> 0, total |-> 0, consistency |-> 0]

\* toFixed1 with the digits after the first decimal cut off instead of rounded
toFixed1Truncating(completed, total) == (1000 * completed) \div total

\* Number(((completed / total) * 100).toFixed(1)), in tenths: toFixed rounds
\* to the nearest tenth, the larger one on a tie.  Exact for total < 80,
\* where the only ties (total 16, 32, 48, 64) are exact binary fractions.
toFixed1(completed, total) == (2000 * completed + total) \div (2 * total)

PeriodSummary(completed, total) ==
  [completed |-> completed, total |-> total,
   consistency |-> IF total = 0 THEN 0 ELSE toFixed1(completed, total)]

\* CompletedMapOf taking every record for a completion, whatever its flag
CompletedMapOfAnyRecord(rows) == [dt \in {r.date : r \in rows} |-> TRUE]

\* new Map(rows.map((row) => [row.date, row.completed === 1]))
CompletedMapOf(rows) ==
  [dt \in {r.date : r \in rows} |-> (CHOOSE r \in rows : r.date = dt).completed = 1]

\* Map.prototype.get, read as a condition: a missing key is undefined (falsy)
MapGet(map, key) == IF key \in DOMAIN map THEN map[key] ELSE FALSE

\* PeriodLoop stopping before the last day (d < cappedEnd)
RECURSIVE PeriodLoopExclusive(_, _, _, _, _)
PeriodLoopExclusive(completedMap, d, cappedEnd, completed, total) ==
  IF d < cappedEnd
    THEN PeriodLoopExclusive(completedMap, addDaysUTC(d, 1), cappedEnd,
                             IF MapGet(completedMap, toISODate(d)) THEN completed + 1
                                                                   ELSE completed,
                             total + 1)
    ELSE PeriodSummary(completed, total)

\* for (let d = new Date(start); d <= cappedEnd; d = addDaysUTC(d, 1))
RECURSIVE PeriodLoop(_, _, _, _, _)
PeriodLoop(completedMap, d, cappedEnd, completed, total) ==
  IF d <= cappedEnd
    THEN PeriodLoop(completedMap, addDaysUTC(d, 1), cappedEnd,
                    IF MapGet(completedMap, toISODate(d)) THEN completed + 1 ELSE completed,
                    total + 1)
    ELSE PeriodSummary(completed, total)

\* buildPeriodSummary capping at the later of end and today
buildPeriodSummaryLaterCap(habitId, start, end, today) ==
  LET cappedEnd == IF end > today THEN end ELSE today
  IN  IF cappedEnd < start
        THEN ZeroSummary
        ELSE LET lo   == toISODate(start)
                 hi   == toISODate(cappedEnd)
                 rows == {r \in checkins :
                            r.habit_id = habitId /\ IsoLE(lo, r.date) /\ IsoLE(r.date, hi)}
             IN  PeriodLoop(CompletedMapOf(rows), start, cappedEnd, 0, 0)

buildPeriodSummary(habitId, start, end, today) ==
  LET cappedEnd == IF end > today THEN today ELSE end
  IN  IF cappedEnd < start
        THEN ZeroSummary
        ELSE LET lo   == toISODate(start)
                 hi   == toISODate(cappedEnd)
                 rows == {r \in checkins :
                            r.habit_id = habitId /\ IsoLE(lo, r.date) /\ IsoLE(r.date, hi)}
             IN  PeriodLoop(CompletedMapOf(rows), start, cappedEnd, 0, 0)

\* new Map(checkins.map((row) => [`${row.habit_id}-${row.date}`, row.completed]))
CheckinsMapOf(rows) ==
  [k \in {<<r.habit_id, r.date>> : r \in rows} |->
     (CHOOSE r \in rows : r.habit_id = k[1] /\ r.date = k[2]).completed]

\* (checkinsMap.get(`${habit.id}-${iso}`) ?? 0) === 1
IsDone(checkinsMap, habit, iso) ==
  (IF <<habit.id, iso>> \in DOMAIN checkinsMap THEN checkinsMap[<<habit.id, iso>>] ELSE 0) = 1

\* habits.filter((habit) => isHabitActiveOnDate(habit, iso)), as the set of its positions
ActiveHabits(habitRows, iso) ==
  {i \in DOMAIN habitRows : isHabitActiveOnDate(habitRows[i], iso)}

DoneCount(habitRows, checkinsMap, iso) ==
  Cardinality({i \in ActiveHabits(habitRows, iso) : IsDone(checkinsMap, habitRows[i], iso)})

RECURSIVE AllPeriodLoop(_, _, _, _, _, _)
AllPeriodLoop(habitRows, checkinsMap, d, cappedEnd, completed, total) ==
  IF d <= cappedEnd
    THEN LET iso == toISODate(d)
             activeHabits == ActiveHabits(habitRows, iso)
         IN  AllPeriodLoop(habitRows, checkinsMap, addDaysUTC(d, 1), cappedEnd,
                           completed + DoneCount(habitRows, checkinsMap, iso),
                           total + Cardinality(activeHabits))
    ELSE PeriodSummary(completed, total)

buildAllPeriodSummary(habitRows, checkinsMap, start, end, today) ==
  LET cappedEnd == IF end > today THEN today ELSE end
  IN  IF cappedEnd < start
        THEN ZeroSummary
        ELSE AllPeriodLoop(habitRows, checkinsMap, start, cappedEnd, 0, 0)

getHabitCompletionsMap(habitId) ==
  CompletedMapOf({r \in checkins : r.habit_id = habitId})

\* CurrentStreakLoop walking on past startDate (no d >= startDate)
RECURSIVE CurrentStreakLoopUnbounded(_, _, _, _)
CurrentStreakLoopUnbounded(completionsMap, d, startDate, currentStreak) ==
  IF MapGet(completionsMap, toISODate(d))
    THEN CurrentStreakLoopUnbounded(completionsMap, addDaysUTC(d, -1), startDate,
                                    currentStreak + 1)
    ELSE currentStreak

\* for (let d = new Date(today); d >= startDate; d = addDaysUTC(d, -1))
RECURSIVE CurrentStreakLoop(_, _, _, _)
CurrentStreakLoop(completionsMap, d, startDate, currentStreak) ==
  IF d >= startDate /\ MapGet(completionsMap, toISODate(d))
    THEN CurrentStreakLoop(completionsMap, addDaysUTC(d, -1), startDate, currentStreak + 1)
    ELSE currentStreak

\* LongestStreakLoop without the reset of running on a day that is not completed
RECURSIVE LongestStreakLoopNoReset(_, _, _, _, _)
LongestStreakLoopNoReset(completionsMap, d, today, running, longestStreak) ==
  IF d <= today
    THEN IF MapGet(completionsMap, toISODate(d))
           THEN LongestStreakLoopNoReset(completionsMap, addDaysUTC(d, 1), today, running + 1,
                                         IF running + 1 > longestStreak THEN running + 1
                                                                        ELSE longestStreak)
           ELSE LongestStreakLoopNoReset(completionsMap, addDaysUTC(d, 1), today, running,
                                         longestStreak)
    ELSE longestStreak

\* for (let d = new Date(startDate); d <= today; d = addDaysUTC(d, 1))
RECURSIVE LongestStreakLoop(_, _, _, _, _)
LongestStreakLoop(completionsMap, d, today, running, longestStreak) ==
  IF d <= today
    THEN IF MapGet(completionsMap, toISODate(d))
           THEN LongestStreakLoop(completionsMap, addDaysUTC(d, 1), today, running + 1,
                                  IF running + 1 > longestStreak THEN running + 1
                                                                 ELSE longestStreak)
           ELSE LongestStreakLoop(completionsMap, addDaysUTC(d, 1), today, 0, longestStreak)
    ELSE longestStreak

\* computeStreaksFromMap with the forward scan ending the day before today
computeStreaksBeforeToday(completionsMap, startDate, today) ==
  [currentStreak |-> CurrentStreakLoop(completionsMap, today, startDate, 0),
   longestStreak |-> LongestStreakLoop(completionsMap, startDate, addDaysUTC(today, -1), 0, 0)]

computeStreaksFromMap(completionsMap, startDate, today) ==
  [currentStreak |-> CurrentStreakLoop(completionsMap, today, startDate, 0),
   longestStreak |-> LongestStreakLoop(completionsMap, startDate, today, 0, 0)]

(***************************************************************************)
(* The store.  habits is the table in id order (ids are 1, 2, ... as the   *)
(* serial primary key hands them out); checkins is the set of its rows.    *)
(***************************************************************************)
\* lower() leaving the name as it is
LowerKeepingCase(name) == name

\* SQL lower()
Lower(name) == IF name = "Run" THEN "run" ELSE name

HabitIds == 1..Len(habits)

\* the first day of the clock: a Monday, the first day of a week, a month and a year
FirstDay == DaysFromCivil(2024, 1, 1)

\* no response is in flight: the client has taken the previous one and may send
\* its next request (api.ts awaits every request)
Idle == resp = NoResp

Init ==
  /\ habits = <<>>
  /\ checkins = {}
  /\ clock = FirstDay
  /\ resp = NoResp

\* the server's date changes at UTC midnight
Tick ==
  /\ Idle
  /\ clock < FirstDay + MaxTicks
  /\ clock' = clock + 1
  /\ resp' = NoResp
  /\ UNCHANGED <<habits, checkins>>

\* CreateHabit reactivating the deleted row without a new created_at
CreateHabitKeepingCreatedAt(name) ==
  LET existingActive  == {i \in HabitIds :
                            Lower(habits[i].name) = Lower(name) /\ habits[i].deleted_on = NULL}
      deletedIds      == {i \in HabitIds :
                            Lower(habits[i].name) = Lower(name) /\ habits[i].deleted_on # NULL}
      latestDeleted   == {i \in deletedIds :
                            \A j \in deletedIds : IsoLE(habits[j].deleted_on, habits[i].deleted_on)}
      today           == toISODate(clock)
  IN  /\ Idle
      /\ UNCHANGED <<checkins, clock>>
      /\ IF existingActive # {}
           THEN /\ resp' = [op |-> "createHabit", status |-> 409]
                /\ UNCHANGED habits
           ELSE IF deletedIds # {}
             THEN \E i \in latestDeleted :
                    /\ habits' = [habits EXCEPT ![i].deleted_on = NULL]
                    /\ resp' = [op |-> "createHabit", status |-> 201, id |-> i]
             ELSE /\ Len(habits) < MaxHabits
                  /\ habits' = Append(habits,
                                 [id |-> Len(habits) + 1, name |-> name,
                                  created_at |-> today, deleted_on |-> NULL])
                  /\ resp' = [op |-> "createHabit", status |-> 201, id |-> Len(habits) + 1]

\* POST /api/habits
CreateHabit(name) ==
  LET existingActive  == {i \in HabitIds :
                            Lower(habits[i].name) = Lower(name) /\ habits[i].deleted_on = NULL}
      deletedIds      == {i \in HabitIds :
                            Lower(habits[i].name) = Lower(name) /\ habits[i].deleted_on # NULL}
      \* ORDER BY deleted_on DESC LIMIT 1 (any one of the rows that tie)
      latestDeleted   == {i \in deletedIds :
                            \A j \in deletedIds : IsoLE(habits[j].deleted_on, habits[i].deleted_on)}
      today           == toISODate(clock)
  IN  /\ Idle
      /\ UNCHANGED <<checkins, clock>>
      /\ IF existingActive # {}
           THEN /\ resp' = [op |-> "createHabit", status |-> 409]
                /\ UNCHANGED habits
           ELSE IF deletedIds # {}
             THEN \E i \in latestDeleted :
                    /\ habits' = [habits EXCEPT ![i].deleted_on = NULL, ![i].created_at = today]
                    /\ resp' = [op |-> "createHabit", status |-> 201, id |-> i]
             ELSE IF \E i \in HabitIds : habits[i].name = name
               \* UNIQUE(name): the insert throws and the handler answers 409
               THEN /\ resp' = [op |-> "createHabit", status |-> 409]
                    /\ UNCHANGED habits
               ELSE /\ Len(habits) < MaxHabits
                    /\ habits' = Append(habits,
                                   [id |-> Len(habits) + 1, name |-> name,
                                    created_at |-> today, deleted_on |-> NULL])
                    /\ resp' = [op |-> "createHabit", status |-> 201, id |-> Len(habits) + 1]

\* DeleteHabit writing deleted_on again on a habit that is deleted already
DeleteHabitAgain(habitId) ==
  /\ Idle
  /\ UNCHANGED <<checkins, clock>>
  /\ IF habitId \notin HabitIds
       THEN /\ resp' = [op |-> "deleteHabit", status |-> 404]
            /\ UNCHANGED habits
       ELSE /\ habits' = [habits EXCEPT ![habitId].deleted_on = toISODate(clock)]
            /\ resp' = [op |-> "deleteHabit", status |-> 200]

\* DELETE /api/habits/:habitId
DeleteHabit(habitId) ==
  /\ Idle
  /\ UNCHANGED <<checkins, clock>>
  /\ IF habitId \notin HabitIds
       THEN /\ resp' = [op |-> "deleteHabit", status |-> 404]
            /\ UNCHANGED habits
       ELSE IF habits[habitId].deleted_on # NULL
         THEN /\ resp' = [op |-> "deleteHabit", status |-> 200]
              /\ UNCHANGED habits
         ELSE /\ habits' = [habits EXCEPT ![habitId].deleted_on = toISODate(clock)]
              /\ resp' = [op |-> "deleteHabit", status |-> 200]

\* PutChecklist without the date !== today check
PutChecklistAnyDate(habitId, date, completed) ==
  /\ Idle
  /\ UNCHANGED <<habits, clock>>
  /\ IF ~(habitId \in HabitIds /\ isHabitActiveOnDate(habits[habitId], date))
       THEN /\ resp' = [op |-> "putChecklist", status |-> 404]
            /\ UNCHANGED checkins
       ELSE /\ checkins' =
                 {r \in checkins : ~(r.habit_id = habitId /\ r.date = date)}
                 \cup {[habit_id |-> habitId, date |-> date,
                        completed |-> IF completed THEN 1 ELSE 0]}
            /\ resp' = [op |-> "putChecklist", status |-> 200]

\* PutChecklist with a plain INSERT, no ON CONFLICT clause and no constraint
PutChecklistInsertOnly(habitId, date, completed) ==
  LET today == toISODate(clock)
  IN  /\ Idle
      /\ UNCHANGED <<habits, clock>>
      /\ IF date # today
           THEN /\ resp' = [op |-> "putChecklist", status |-> 400]
                /\ UNCHANGED checkins
           ELSE IF ~(habitId \in HabitIds /\ isHabitActiveOnDate(habits[habitId], date))
             THEN /\ resp' = [op |-> "putChecklist", status |-> 404]
                  /\ UNCHANGED checkins
             ELSE /\ checkins' =
                       checkins \cup {[habit_id |-> habitId, date |-> date,
                                       completed |-> IF completed THEN 1 ELSE 0]}
                  /\ resp' = [op |-> "putChecklist", status |-> 200]

\* PUT /api/checklist/:habitId
PutChecklist(habitId, date, completed) ==
  LET today == toISODate(clock)
  IN  /\ Idle
      /\ UNCHANGED <<habits, clock>>
      /\ IF date # today
           THEN /\ resp' = [op |-> "putChecklist", status |-> 400]
                /\ UNCHANGED checkins
           ELSE IF ~(habitId \in HabitIds /\ isHabitActiveOnDate(habits[habitId], date))
             THEN /\ resp' = [op |-> "putChecklist", status |-> 404]
                  /\ UNCHANGED checkins
             ELSE \* INSERT ... ON CONFLICT(habit_id, date) DO UPDATE SET completed
                  /\ checkins' =
                       {r \in checkins : ~(r.habit_id = habitId /\ r.date = date)}
                       \cup {[habit_id |-> habitId, date |-> date,
                              completed |-> IF completed THEN 1 ELSE 0]}
                  /\ resp' = [op |-> "putChecklist", status |-> 200]

(***************************************************************************)
(* The summary handlers.                                                   *)
(***************************************************************************)
weekdayNames == <<"Sun", "Mon", "Tue", "Wed", "Thu", "Fri", "Sat">>

monthNames == <<"Jan", "Feb", "Mar", "Apr", "May", "Jun",
                "Jul", "Aug", "Sep", "Oct", "Nov", "Dec">>

\* toLocaleString("en-US", {month: "short", year: "numeric"}): "Jan 2024"
monthLabel(year, monthZeroBased) ==
  LET date == CivilFromDays(DateUTC(year, monthZeroBased, 1))
  IN  <<monthNames[date[2]], date[1]>>

\* `${toISODate(start)} to ${toISODate(end)}`
weekLabel(start, end) == <<toISODate(start), "to", toISODate(end)>>

Labelled(label, summary) ==
  [label |-> label, completed |-> summary.completed, total |-> summary.total,
   consistency |-> summary.consistency]

\* weekdayStats.forEach((s) => { s.rate = ... })
WithRates(stats) ==
  [w \in DOMAIN stats |->
     [done |-> stats[w].done, total |-> stats[w].total,
      rate |-> IF stats[w].total = 0 THEN 0 ELSE toFixed1(stats[w].done, stats[w].total)]]

\* Array.prototype.sort with the comparator (a, b) => key(a) - key(b): the sort
\* is stable, so an element comes after the elements with a smaller key and
\* after the earlier elements with its own key
StableSort(array, key) ==
  LET n == Len(array)
      rank(i) == Cardinality({j \in 1..n : key[j] < key[i] \/ (key[j] = key[i] /\ j < i)})
  IN  [p \in 1..n |-> array[CHOOSE i \in 1..n : rank(i) = p - 1]]

\* the array weekdayStats, Sun first
StatsArray(stats) ==
  [k \in 1..7 |-> [name |-> weekdayNames[k], done |-> stats[k - 1].done,
                   total |-> stats[k - 1].total, rate |-> stats[k - 1].rate]]

\* bestDayOf taking the last of the sorted weekdays
bestDayOfLast(stats) ==
  LET array == StatsArray(stats)
  IN  StableSort(array, [k \in 1..7 |-> 0 - array[k].rate])[7].name

\* [...weekdayStats].sort((a, b) => b.rate - a.rate)[0].name
bestDayOf(stats) ==
  LET array == StatsArray(stats)
  IN  StableSort(array, [k \in 1..7 |-> 0 - array[k].rate])[1].name

\* [...weekdayStats].sort((a, b) => a.rate - b.rate)[0].name
missedDayOf(stats) ==
  LET array == StatsArray(stats)
  IN  StableSort(array, [k \in 1..7 |-> array[k].rate])[1].name

ZeroStats == [w \in 0..6 |-> [done |-> 0, total |-> 0]]

\* the weekday loop of GET /api/habits/:habitId/summary
RECURSIVE HabitWeekdayLoop(_, _, _, _)
HabitWeekdayLoop(completionsMap, d, last, stats) ==
  IF d <= last
    THEN LET weekday == getUTCDay(d)
         IN  HabitWeekdayLoop(completionsMap, addDaysUTC(d, 1), last,
               [stats EXCEPT ![weekday] =
                  [done  |-> IF MapGet(completionsMap, toISODate(d)) THEN @.done + 1 ELSE @.done,
                   total |-> @.total + 1]])
    ELSE stats

\* the weekday loop of GET /api/summary
RECURSIVE AllWeekdayLoop(_, _, _, _, _)
AllWeekdayLoop(habitRows, checkinsMap, d, last, stats) ==
  IF d <= last
    THEN LET iso == toISODate(d)
             weekday == getUTCDay(d)
         IN  AllWeekdayLoop(habitRows, checkinsMap, addDaysUTC(d, 1), last,
               [stats EXCEPT ![weekday] =
                  [done  |-> @.done + DoneCount(habitRows, checkinsMap, iso),
                   total |-> @.total + Cardinality(ActiveHabits(habitRows, iso))]])
    ELSE stats

\* one habitComparison entry: the period summary of a habit over the year,
\* from its created_at when that is later than the year's first day
ComparisonItem(entry, yearStart, yearEnd, today) ==
  LET rowCreatedAt == fromISODate(entry.created_at)
      start == IF yearStart > rowCreatedAt THEN yearStart ELSE rowCreatedAt
  IN  [habitId |-> entry.id, name |-> entry.name,
       consistency |-> buildPeriodSummary(entry.id, start, yearEnd, today).consistency]

\* today of GET /api/habits/:habitId/summary
effectiveTodayISO(habit) ==
  LET now == toISODate(clock)
  IN  IF habit.deleted_on # NULL /\ IsoLE(habit.deleted_on, now)
        THEN dayBeforeISO(habit.deleted_on) ELSE now

\* WeeklyEntry with the windows one week late
WeeklyEntryShifted(habitId, currentWeekStart, i, today) ==
  LET start == addDaysUTC(currentWeekStart, (1 - i) * 7)
      end == addDaysUTC(start, 6)
  IN  Labelled(weekLabel(start, end), buildPeriodSummary(habitId, start, end, today))

\* one pass of for (let i = 7; i >= 0; i -= 1) of the single-habit summary
WeeklyEntry(habitId, currentWeekStart, i, today) ==
  LET start == addDaysUTC(currentWeekStart, -i * 7)
      end == addDaysUTC(start, 6)
  IN  Labelled(weekLabel(start, end), buildPeriodSummary(habitId, start, end, today))

\* MonthlyEntry starting at the first of the month whatever createdAt is
MonthlyEntryUnclipped(habitId, year, month, createdAt, today) ==
  Labelled(monthLabel(year, month),
           buildPeriodSummary(habitId, DateUTC(year, month, 1), endOfMonthUTC(year, month),
                              today))

\* one pass of for (let month = 0; month < 12; month += 1) of the single-habit summary
MonthlyEntry(habitId, year, month, createdAt, today) ==
  LET start == DateUTC(year, month, 1)
      end == endOfMonthUTC(year, month)
      effectiveStart == IF start > createdAt THEN start ELSE createdAt
      summary == buildPeriodSummary(habitId, effectiveStart, end, today)
  IN  Labelled(monthLabel(year, month),
               IF effectiveStart > end THEN ZeroSummary ELSE summary)

\* weekdayStats of GET /api/habits/:habitId/summary, rates set
HabitWeekdayStats(habitId, year) ==
  LET today == fromISODate(effectiveTodayISO(habits[habitId]))
      yearStart == DateUTC(year, 0, 1)
      yearEnd == DateUTC(year, 11, 31)
  IN  WithRates(HabitWeekdayLoop(getHabitCompletionsMap(habitId), yearStart,
                                 IF yearEnd < today THEN yearEnd ELSE today, ZeroStats))

\* the body GET /api/habits/:habitId/summary answers with
HabitSummaryBody(habitId, year) ==
  LET habit == habits[habitId]
      \* SELECT id, name, created_at FROM habits ORDER BY id ASC
      allHabits == habits
      today == fromISODate(effectiveTodayISO(habit))
      createdAt == fromISODate(habit.created_at)
      yearStart == DateUTC(year, 0, 1)
      yearEnd == DateUTC(year, 11, 31)
      effectiveYearStart == IF yearStart > createdAt THEN yearStart ELSE createdAt
      currentWeekStart == startOfISOWeek(today)
      currentWeekEnd == endOfISOWeek(today)
      currentMonthStart == DateUTC(getUTCFullYear(today), getUTCMonth(today), 1)
      currentMonthEnd == endOfMonthUTC(getUTCFullYear(today), getUTCMonth(today))
      weekly == [k \in 1..8 |-> WeeklyEntry(habitId, currentWeekStart, 8 - k, today)]
      monthly == [k \in 1..12 |-> MonthlyEntry(habitId, year, k - 1, createdAt, today)]
      completionsMap == getHabitCompletionsMap(habitId)
      streaks == computeStreaksFromMap(completionsMap, createdAt, today)
      \* SELECT COALESCE(SUM(completed), 0): completed is 0 or 1
      lifetimeCompletions ==
        Cardinality({r \in checkins : r.habit_id = habitId /\ r.completed = 1})
      weekdayStats == HabitWeekdayStats(habitId, year)
  IN  [year |-> buildPeriodSummary(habitId, effectiveYearStart, yearEnd, today),
       currentWeek |-> buildPeriodSummary(habitId, currentWeekStart, currentWeekEnd, today),
       currentMonth |-> buildPeriodSummary(habitId, currentMonthStart, currentMonthEnd, today),
       weekly |-> weekly,
       monthly |-> monthly,
       currentStreak |-> streaks.currentStreak,
       longestStreak |-> streaks.longestStreak,
       lifetimeCompletions |-> lifetimeCompletions,
       bestDay |-> bestDayOf(weekdayStats),
       missedDay |-> missedDayOf(weekdayStats),
       habitComparison |->
         [k \in DOMAIN allHabits |-> ComparisonItem(allHabits[k], yearStart, yearEnd, today)]]

\* GET /api/habits/:habitId/summary?year=
GetHabitSummary(habitId, year) ==
  /\ Idle
  /\ UNCHANGED <<habits, checkins, clock>>
  /\ IF habitId \notin HabitIds
       THEN resp' = [op |-> "habitSummary", status |-> 404]
       ELSE resp' = [op |-> "habitSummary", status |-> 200, habitId |-> habitId,
                     year |-> year, body |-> HabitSummaryBody(habitId, year)]

\* AllCurrentStreakLoop counting a day once any active habit is completed
RECURSIVE AllCurrentStreakLoopAnyDone(_, _, _, _)
AllCurrentStreakLoopAnyDone(habitRows, checkinsMap, d, currentStreak) ==
  LET iso == toISODate(d)
      activeHabits == ActiveHabits(habitRows, iso)
  IN  IF activeHabits = {}
        THEN currentStreak
        ELSE IF DoneCount(habitRows, checkinsMap, iso) >= 1
          THEN AllCurrentStreakLoopAnyDone(habitRows, checkinsMap, addDaysUTC(d, -1),
                                           currentStreak + 1)
          ELSE currentStreak

\* the backward walk of GET /api/summary and of GET /api/streak
RECURSIVE AllCurrentStreakLoop(_, _, _, _)
AllCurrentStreakLoop(habitRows, checkinsMap, d, currentStreak) ==
  LET iso == toISODate(d)
      activeHabits == ActiveHabits(habitRows, iso)
  IN  IF activeHabits = {}
        THEN currentStreak
        ELSE IF DoneCount(habitRows, checkinsMap, iso) = Cardinality(activeHabits)
          THEN AllCurrentStreakLoop(habitRows, checkinsMap, addDaysUTC(d, -1), currentStreak + 1)
          ELSE currentStreak

\* AllLongestStreakLoop resetting run on a day without an active habit
RECURSIVE AllLongestStreakLoopResetOnGap(_, _, _, _, _, _)
AllLongestStreakLoopResetOnGap(habitRows, checkinsMap, d, today, run, longestStreak) ==
  IF d <= today
    THEN LET iso == toISODate(d)
             activeHabits == ActiveHabits(habitRows, iso)
         IN  IF activeHabits # {}
                  /\ DoneCount(habitRows, checkinsMap, iso) = Cardinality(activeHabits)
               THEN AllLongestStreakLoopResetOnGap(habitRows, checkinsMap, addDaysUTC(d, 1),
                                                   today, run + 1,
                                                   IF run + 1 > longestStreak THEN run + 1
                                                                              ELSE longestStreak)
               ELSE AllLongestStreakLoopResetOnGap(habitRows, checkinsMap, addDaysUTC(d, 1),
                                                   today, 0, longestStreak)
    ELSE longestStreak

\* for (let d = fromISODate(earliestCreated); d <= today; d = addDaysUTC(d, 1))
RECURSIVE AllLongestStreakLoop(_, _, _, _, _, _)
AllLongestStreakLoop(habitRows, checkinsMap, d, today, run, longestStreak) ==
  IF d <= today
    THEN LET iso == toISODate(d)
             activeHabits == ActiveHabits(habitRows, iso)
         IN  IF activeHabits = {}
               THEN AllLongestStreakLoop(habitRows, checkinsMap, addDaysUTC(d, 1), today,
                                         run, longestStreak)
               ELSE IF DoneCount(habitRows, checkinsMap, iso) = Cardinality(activeHabits)
                 THEN AllLongestStreakLoop(habitRows, checkinsMap, addDaysUTC(d, 1), today,
                                           run + 1,
                                           IF run + 1 > longestStreak THEN run + 1
                                                                      ELSE longestStreak)
                 ELSE AllLongestStreakLoop(habitRows, checkinsMap, addDaysUTC(d, 1), today,
                                           0, longestStreak)
    ELSE longestStreak

\* habits.map((h) => h.created_at).sort()[0]
EarliestCreated(habitRows) ==
  CHOOSE c \in {habitRows[i].created_at : i \in DOMAIN habitRows} :
    \A i \in DOMAIN habitRows : IsoLE(c, habitRows[i].created_at)

\* weekdayStats of GET /api/summary, rates set
AllWeekdayStats(year) ==
  LET today == fromISODate(toISODate(clock))
      yearStart == DateUTC(year, 0, 1)
      yearEnd == DateUTC(year, 11, 31)
      checkinsMap == CheckinsMapOf({r \in checkins : IsoLE(r.date, toISODate(today))})
  IN  WithRates(AllWeekdayLoop(habits, checkinsMap, yearStart,
                               IF yearEnd < today THEN yearEnd ELSE today, ZeroStats))

\* the body GET /api/summary answers with when there is a habit
AllSummaryBody(year) ==
  LET nowISO == toISODate(clock)
      today == fromISODate(nowISO)
      yearStart == DateUTC(year, 0, 1)
      yearEnd == DateUTC(year, 11, 31)
      currentWeekStart == startOfISOWeek(today)
      currentWeekEnd == endOfISOWeek(today)
      currentMonthStart == DateUTC(getUTCFullYear(today), getUTCMonth(today), 1)
      currentMonthEnd == endOfMonthUTC(getUTCFullYear(today), getUTCMonth(today))
      \* SELECT habit_id, date, completed FROM checkins WHERE date <= ?
      rows == {r \in checkins : IsoLE(r.date, toISODate(today))}
      checkinsMap == CheckinsMapOf(rows)
      weekly ==
        [k \in 1..8 |->
           LET i == 8 - k
               start == addDaysUTC(currentWeekStart, -i * 7)
               end == addDaysUTC(start, 6)
           IN  Labelled(weekLabel(start, end),
                        buildAllPeriodSummary(habits, checkinsMap, start, end, today))]
      monthly ==
        [k \in 1..12 |->
           LET month == k - 1
               start == DateUTC(year, month, 1)
               end == endOfMonthUTC(year, month)
           IN  Labelled(monthLabel(year, month),
                        buildAllPeriodSummary(habits, checkinsMap, start, end, today))]
      lifetimeCompletions ==
        Cardinality({r \in rows :
                       /\ \E i \in HabitIds : habits[i].id = r.habit_id
                       /\ \A i \in HabitIds :
                            habits[i].id = r.habit_id => isHabitActiveOnDate(habits[i], r.date)
                       /\ r.completed = 1})
      weekdayStats == AllWeekdayStats(year)
  IN  [year |-> buildAllPeriodSummary(habits, checkinsMap, yearStart, yearEnd, today),
       currentWeek |->
         buildAllPeriodSummary(habits, checkinsMap, currentWeekStart, currentWeekEnd, today),
       currentMonth |->
         buildAllPeriodSummary(habits, checkinsMap, currentMonthStart, currentMonthEnd, today),
       weekly |-> weekly,
       monthly |-> monthly,
       currentStreak |-> AllCurrentStreakLoop(habits, checkinsMap, today, 0),
       longestStreak |->
         AllLongestStreakLoop(habits, checkinsMap, fromISODate(EarliestCreated(habits)),
                              today, 0, 0),
       lifetimeCompletions |-> lifetimeCompletions,
       bestDay |-> bestDayOf(weekdayStats),
       missedDay |-> missedDayOf(weekdayStats),
       habitComparison |->
         [k \in DOMAIN habits |-> ComparisonItem(habits[k], yearStart, yearEnd, today)]]

\* the body GET /api/summary answers with when the habits table is empty
EmptySummaryBody ==
  [year |-> ZeroSummary, currentWeek |-> ZeroSummary, currentMonth |-> ZeroSummary,
   weekly |-> <<>>, monthly |-> <<>>, currentStreak |-> 0, longestStreak |-> 0,
   lifetimeCompletions |-> 0, bestDay |-> "N/A", missedDay |-> "none",
   habitComparison |-> <<>>]

\* GET /api/summary?year=
GetSummary(year) ==
  /\ Idle
  /\ UNCHANGED <<habits, checkins, clock>>
  /\ resp' = [op |-> "summary", status |-> 200, year |-> year,
              body |-> IF Len(habits) = 0 THEN EmptySummaryBody ELSE AllSummaryBody(year)]

\* StreakLoop taking the day of the deletion for an active day
RECURSIVE StreakLoopThroughDeletion(_, _, _, _)
StreakLoopThroughDeletion(allHabits, checkinMap, d, streak) ==
  LET iso == toISODate(d)
      activeHabits ==
        {i \in DOMAIN allHabits :
           /\ IsoLE(allHabits[i].created_at, iso)
           /\ (allHabits[i].deleted_on = NULL \/ IsoLE(iso, allHabits[i].deleted_on))}
      doneCount == Cardinality({i \in activeHabits : IsDone(checkinMap, allHabits[i], iso)})
  IN  IF activeHabits = {}
        THEN streak
        ELSE IF doneCount = Cardinality(activeHabits)
          THEN StreakLoopThroughDeletion(allHabits, checkinMap, addDaysUTC(d, -1), streak + 1)
          ELSE streak

\* for (let d = fromISODate(today); ; d = addDaysUTC(d, -1)) of GET /api/streak
RECURSIVE StreakLoop(_, _, _, _)
StreakLoop(allHabits, checkinMap, d, streak) ==
  LET iso == toISODate(d)
      \* habit.created_at <= iso && (!habit.deleted_on || habit.deleted_on > iso)
      activeHabits ==
        {i \in DOMAIN allHabits :
           /\ IsoLE(allHabits[i].created_at, iso)
           /\ (allHabits[i].deleted_on = NULL \/ IsoLT(iso, allHabits[i].deleted_on))}
      doneCount == Cardinality({i \in activeHabits : IsDone(checkinMap, allHabits[i], iso)})
  IN  IF activeHabits = {}
        THEN streak
        ELSE IF doneCount = Cardinality(activeHabits)
          THEN StreakLoop(allHabits, checkinMap, addDaysUTC(d, -1), streak + 1)
          ELSE streak

\* the body GET /api/streak answers with
StreakBody ==
  LET today == toISODate(clock)
      allHabits == habits
      rows == {r \in checkins : IsoLE(r.date, today)}
      checkinMap == CheckinsMapOf(rows)
  IN  IF Len(allHabits) = 0
        THEN [streak |-> 0, date |-> today]
        ELSE [streak |-> StreakLoop(allHabits, checkinMap, fromISODate(today), 0),
              date |-> today]

\* GET /api/streak
GetStreak ==
  /\ Idle
  /\ UNCHANGED <<habits, checkins, clock>>
  /\ resp' = [op |-> "streak", status |-> 200, body |-> StreakBody]

\* the client takes the response
Receive ==
  /\ ~Idle
  /\ resp' = NoResp
  /\ UNCHANGED <<habits, checkins, clock>>

\* summary.habitComparison sorted with the keys as they are (lowest first)
SortComparisonAscending(habitComparison) ==
  StableSort(habitComparison,
             [k \in 1..Len(habitComparison) |-> habitComparison[k].consistency])

\* summary.habitComparison.slice().sort((a, b) => b.consistency - a.consistency)
SortComparison(habitComparison) ==
  StableSort(habitComparison,
             [k \in 1..Len(habitComparison) |-> 0 - habitComparison[k].consistency])

\* AnalyticsPanel draws the comparison bar chart of the summary it was given;
\* the chart is there when the summary compares more than one habit
RenderComparison ==
  /\ resp.op \in {"summary", "habitSummary"}
  /\ resp.status = 200
  /\ Len(resp.body.habitComparison) > 1
  /\ resp' = [op |-> "comparisonBar", habitComparison |-> resp.body.habitComparison,
              comparison |-> SortComparison(resp.body.habitComparison)]
  /\ UNCHANGED <<habits, checkins, clock>>

Next ==
  \/ Tick
  \/ Receive
  \/ RenderComparison
  \/ \E name \in Names : CreateHabit(name)
  \/ \E habitId \in 1..MaxHabits : DeleteHabit(habitId)
  \/ \E habitId \in 1..MaxHabits, off \in {-1, 0, 1}, completed \in BOOLEAN :
       PutChecklist(habitId, toISODate(clock + off), completed)
  \/ \E habitId \in 1..MaxHabits, year \in Years : GetHabitSummary(habitId, year)
  \/ \E year \in Years : GetSummary(year)
  \/ GetStreak

Spec == Init /\ [][Next]_vars

(***************************************************************************)
(* Snapshots: stores the requests above leave behind, drawn directly.  A   *)
(* habit was created on or before the clock's day and deleted, if at all,  *)
(* on or after its created_at; a check-in is dated on or before the        *)
(* clock's day and, for a deleted habit, on or before its deleted_on (it   *)
(* was written on its own date while the habit was active; a reactivation  *)
(* moves created_at past older check-ins).                                 *)
(***************************************************************************)
RowNames == <<"run", "read", "walk", "swim">>

SnapshotDays == FirstDay..(FirstDay + SnapDays)

HabitRowsAt(id, day) ==
  {[id |-> id, name |-> RowNames[id], created_at |-> toISODate(c), deleted_on |-> del] :
     c \in {x \in SnapshotDays : x <= day},
     del \in {NULL} \cup {toISODate(x) : x \in SnapshotDays}}

SnapshotHabits(day) ==
  UNION {{h \in [1..n -> UNION {HabitRowsAt(id, day) : id \in 1..n}] :
            \A id \in 1..n :
              /\ h[id].id = id
              /\ h[id].deleted_on # NULL =>
                   /\ IsoLE(h[id].created_at, h[id].deleted_on)
                   /\ IsoLE(h[id].deleted_on, toISODate(day))} :
         n \in 0..SnapHabits}

CheckinSlots(habitRows, day) ==
  {[habit_id |-> id, date |-> toISODate(x), completed |-> c] :
     id \in DOMAIN habitRows, x \in {y \in SnapshotDays : y <= day}, c \in {0, 1}}

SnapshotCheckins(habitRows, day) ==
  {rows \in SUBSET CheckinSlots(habitRows, day) :
     /\ Cardinality(rows) <= MaxCheckins
     /\ \A r, q \in rows : r.habit_id = q.habit_id /\ r.date = q.date => r = q
     /\ \A r \in rows :
          habitRows[r.habit_id].deleted_on # NULL =>
            IsoLE(r.date, habitRows[r.habit_id].deleted_on)}

InitSnapshot ==
  /\ clock \in SnapshotDays
  /\ habits \in SnapshotHabits(clock)
  /\ checkins \in SnapshotCheckins(habits, clock)
  /\ resp = NoResp

(***************************************************************************)
(* Snapshots of longer histories, each the store a client leaves behind    *)
(* who creates the habits on their created_at and checks in day by day.    *)
(***************************************************************************)
CompletedRows(habitId, from, to) ==
  {[habit_id |-> habitId, date |-> toISODate(d), completed |-> 1] : d \in from..to}

NotCompletedRows(habitId, days) ==
  {[habit_id |-> habitId, date |-> toISODate(d), completed |-> 0] : d \in days}

NewHabit(id, createdAt) ==
  [id |-> id, name |-> RowNames[id], created_at |-> toISODate(createdAt), deleted_on |-> NULL]

Jan(day) == DaysFromCivil(2024, 1, day)

Mar(day) == DaysFromCivil(2024, 3, day)

\* a habit created 2024-01-01, completed on its first three days and not
\* completed (unchecked again, or never checked) on the next two
InitFirstWeek ==
  /\ clock = Jan(5)
  /\ habits = <<NewHabit(1, Jan(1))>>
  /\ \E unchecked \in SUBSET {Jan(4), Jan(5)} :
       checkins = CompletedRows(1, Jan(1), Jan(3)) \cup NotCompletedRows(1, unchecked)
  /\ resp = NoResp

\* a habit created 2024-03-10 and completed every day through 2024-03-20,
\* seen on that day and on each of the five days after it
InitMarch ==
  /\ clock \in Mar(20)..Mar(25)
  /\ habits = <<NewHabit(1, Mar(10))>>
  /\ checkins = CompletedRows(1, Mar(10), Mar(20))
  /\ resp = NoResp

\* habit 1 active all of January, habit 2 created 2024-01-15, seen on
\* 2024-01-20: habit 1 completed from 01-03 on and habit 2 from its creation
\* on, but for 01-05 (habit 1) and 01-20 (either), which may be missed
InitTwoHabits ==
  /\ clock = Jan(20)
  /\ habits = <<NewHabit(1, Jan(1)), NewHabit(2, Jan(15))>>
  /\ \E missed1 \in SUBSET {Jan(5), Jan(20)}, missed2 \in SUBSET {Jan(20)} :
       checkins =
         {r \in CompletedRows(1, Jan(3), Jan(20)) : \A d \in missed1 : r.date # toISODate(d)}
         \cup {r \in CompletedRows(2, Jan(15), Jan(20)) :
                 \A d \in missed2 : r.date # toISODate(d)}
         \cup NotCompletedRows(2, missed2)
  /\ resp = NoResp

\* a habit created 2024-01-01 and completed on each day of its first week,
\* but for the Wednesday and the Saturday, which may be missed; seen on the
\* Sunday that ends the week
InitFullWeek ==
  /\ clock = Jan(7)
  /\ habits = <<NewHabit(1, Jan(1))>>
  /\ \E missed \in SUBSET {Jan(3), Jan(6)} :
       checkins = {r \in CompletedRows(1, Jan(1), Jan(7)) :
                     \A d \in missed : r.date # toISODate(d)}
  /\ resp = NoResp

Feb(day) == DaysFromCivil(2024, 2, day)

\* a habit created 2024-01-30 and completed from that day on, but for
\* 01-31 and 02-01, which may be missed; seen on 2024-02-02
InitTwoMonths ==
  /\ clock = Feb(2)
  /\ habits = <<NewHabit(1, Jan(30))>>
  /\ \E missed \in SUBSET {Jan(31), Feb(1)} :
       checkins = {r \in CompletedRows(1, Jan(30), Feb(2)) :
                     \A d \in missed : r.date # toISODate(d)}
  /\ resp = NoResp

InitRead ==
  InitSnapshot \/ InitFirstWeek \/ InitMarch \/ InitTwoHabits \/ InitFullWeek \/ InitTwoMonths

NextRead ==
  \/ Receive
  \/ RenderComparison
  \/ \E habitId \in 1..SnapHabits, year \in Years : GetHabitSummary(habitId, year)
  \/ \E year \in Years : GetSummary(year)
  \/ GetStreak

SpecRead == InitRead /\ [][NextRead]_vars

(***************************************************************************)
(* The period summary functions applied on their own, to any start, end    *)
(* and today among the snapshot's days.                                    *)
(***************************************************************************)
ApplyBuildPeriodSummary(habitId, start, end, today) ==
  /\ Idle
  /\ resp' = [op |-> "buildPeriodSummary", habitId |-> habitId, start |-> start,
              end |-> end, today |-> today,
              result |-> buildPeriodSummary(habitId, start, end, today)]
  /\ UNCHANGED <<habits, checkins, clock>>

ApplyBuildAllPeriodSummary(start, end, today) ==
  /\ Idle
  /\ resp' = [op |-> "buildAllPeriodSummary", start |-> start, end |-> end, today |-> today,
              result |-> buildAllPeriodSummary(habits, CheckinsMapOf(checkins),
                                               start, end, today)]
  /\ UNCHANGED <<habits, checkins, clock>>

InitFn == InitSnapshot /\ clock = FirstDay + SnapDays

FnDays == SnapshotDays

NextFn ==
  \/ Receive
  \/ \E habitId \in 1..SnapHabits, start \in FnDays, end \in FnDays, today \in FnDays :
       ApplyBuildPeriodSummary(habitId, start, end, today)
  \/ \E start \in FnDays, end \in FnDays, today \in FnDays :
       ApplyBuildAllPeriodSummary(start, end, today)

SpecFn == InitFn /\ [][NextFn]_vars

(***************************************************************************)
(* The handlers step by step.  A handler runs until its next await and     *)
(* the event loop may run another client's request, whole, before it       *)
(* resumes; each query sees the tables as they are when it runs.  resp     *)
(* holds the request in flight: status 0 while the handler is suspended,   *)
(* pc the await it is suspended at, and what it has read and computed so   *)
(* far.  At most one request of another client runs while a request is    *)
(* suspended (overtaken); atRequest keeps, for the properties, the summary *)
(* of the store as the request found it.                                   *)
(***************************************************************************)
Suspended(op, pc) == resp.op = op /\ resp.status = 0 /\ resp.pc = pc

\* const habit = await get(... WHERE id = ?)
BeginHabitSummary(habitId, year) ==
  /\ Idle
  /\ UNCHANGED <<habits, checkins, clock>>
  /\ IF habitId \notin HabitIds
       THEN resp' = [op |-> "habitSummary", status |-> 404]
       ELSE resp' = [op |-> "habitSummary", status |-> 0, pc |-> "allHabits",
                     habitId |-> habitId, year |-> year, habit |-> habits[habitId],
                     allHabits |-> <<>>, body |-> EmptySummaryBody,
                     overtaken |-> FALSE, atRequest |-> HabitSummaryBody(habitId, year)]

\* const allHabits = await all(...)
ReadAllHabits ==
  /\ Suspended("habitSummary", "allHabits")
  /\ UNCHANGED <<habits, checkins, clock>>
  /\ resp' = [resp EXCEPT !.pc = "periods", !.allHabits = habits]

\* await Promise.all([buildPeriodSummary x 3])
ReadPeriods ==
  /\ Suspended("habitSummary", "periods")
  /\ UNCHANGED <<habits, checkins, clock>>
  /\ LET habitId == resp.habitId
         today == fromISODate(effectiveTodayISO(resp.habit))
         createdAt == fromISODate(resp.habit.created_at)
         yearStart == DateUTC(resp.year, 0, 1)
         yearEnd == DateUTC(resp.year, 11, 31)
         effectiveYearStart == IF yearStart > createdAt THEN yearStart ELSE createdAt
         currentWeekStart == startOfISOWeek(today)
         currentWeekEnd == endOfISOWeek(today)
         currentMonthStart == DateUTC(getUTCFullYear(today), getUTCMonth(today), 1)
         currentMonthEnd == endOfMonthUTC(getUTCFullYear(today), getUTCMonth(today))
     IN  resp' = [resp EXCEPT
                    !.pc = "weekly",
                    !.body.year = buildPeriodSummary(habitId, effectiveYearStart, yearEnd, today),
                    !.body.currentWeek =
                      buildPeriodSummary(habitId, currentWeekStart, currentWeekEnd, today),
                    !.body.currentMonth =
                      buildPeriodSummary(habitId, currentMonthStart, currentMonthEnd, today)]

\* for (let i = 7; i >= 0; i -= 1) { ... await buildPeriodSummary ... }
ReadWeekly ==
  /\ Suspended("habitSummary", "weekly")
  /\ UNCHANGED <<habits, checkins, clock>>
  /\ LET today == fromISODate(effectiveTodayISO(resp.habit))
         currentWeekStart == startOfISOWeek(today)
     IN  resp' = [resp EXCEPT
                    !.pc = "monthly",
                    !.body.weekly =
                      [k \in 1..8 |-> WeeklyEntry(resp.habitId, currentWeekStart, 8 - k, today)]]

\* for (let month = 0; month < 12; month += 1) { ... await buildPeriodSummary ... }
ReadMonthly ==
  /\ Suspended("habitSummary", "monthly")
  /\ UNCHANGED <<habits, checkins, clock>>
  /\ LET today == fromISODate(effectiveTodayISO(resp.habit))
         createdAt == fromISODate(resp.habit.created_at)
     IN  resp' = [resp EXCEPT
                    !.pc = "completions",
                    !.body.monthly =
                      [k \in 1..12 |->
                         MonthlyEntry(resp.habitId, resp.year, k - 1, createdAt, today)]]

\* const completionsMap = await getHabitCompletionsMap(habitId); the streaks
\* and the weekday statistics are computed from this map
ReadCompletions ==
  /\ Suspended("habitSummary", "completions")
  /\ UNCHANGED <<habits, checkins, clock>>
  /\ LET today == fromISODate(effectiveTodayISO(resp.habit))
         createdAt == fromISODate(resp.habit.created_at)
         yearStart == DateUTC(resp.year, 0, 1)
         yearEnd == DateUTC(resp.year, 11, 31)
         completionsMap == getHabitCompletionsMap(resp.habitId)
         streaks == computeStreaksFromMap(completionsMap, createdAt, today)
         weekdayStats ==
           WithRates(HabitWeekdayLoop(completionsMap, yearStart,
                                      IF yearEnd < today THEN yearEnd ELSE today, ZeroStats))
     IN  resp' = [resp EXCEPT
                    !.pc = "lifetime",
                    !.body.currentStreak = streaks.currentStreak,
                    !.body.longestStreak = streaks.longestStreak,
                    !.body.bestDay = bestDayOf(weekdayStats),
                    !.body.missedDay = missedDayOf(weekdayStats)]

\* await get("SELECT COALESCE(SUM(completed), 0) ... WHERE habit_id = ?")
ReadLifetime ==
  /\ Suspended("habitSummary", "lifetime")
  /\ UNCHANGED <<habits, checkins, clock>>
  /\ resp' = [resp EXCEPT
                !.pc = "comparison",
                !.body.lifetimeCompletions =
                  Cardinality({r \in checkins : r.habit_id = resp.habitId /\ r.completed = 1})]

\* for (const entry of allHabits) { ... await buildPeriodSummary ... }; res.json
ReadComparison ==
  /\ Suspended("habitSummary", "comparison")
  /\ UNCHANGED <<habits, checkins, clock>>
  /\ LET today == fromISODate(effectiveTodayISO(resp.habit))
         yearStart == DateUTC(resp.year, 0, 1)
         yearEnd == DateUTC(resp.year, 11, 31)
     IN  resp' = [resp EXCEPT
                    !.status = 200,
                    !.pc = "done",
                    !.body.habitComparison =
                      [k \in DOMAIN resp.allHabits |->
                         ComparisonItem(resp.allHabits[k], yearStart, yearEnd, today)]]

\* const existingActive = await get(... lower(name) = lower(?) AND deleted_on IS NULL)
BeginCreateHabit(name) ==
  /\ Idle
  /\ UNCHANGED <<habits, checkins, clock>>
  /\ IF \E i \in HabitIds : Lower(habits[i].name) = Lower(name) /\ habits[i].deleted_on = NULL
       THEN resp' = [op |-> "createHabit", status |-> 409]
       ELSE resp' = [op |-> "createHabit", status |-> 0, pc |-> "existingDeleted",
                     name |-> name, id |-> 0, overtaken |-> FALSE]

\* const existingDeleted = await get(... deleted_on IS NOT NULL ORDER BY deleted_on DESC LIMIT 1)
FindDeleted ==
  /\ Suspended("createHabit", "existingDeleted")
  /\ UNCHANGED <<habits, checkins, clock>>
  /\ LET deletedIds    == {i \in HabitIds : Lower(habits[i].name) = Lower(resp.name)
                                              /\ habits[i].deleted_on # NULL}
         latestDeleted == {i \in deletedIds :
                             \A j \in deletedIds :
                               IsoLE(habits[j].deleted_on, habits[i].deleted_on)}
     IN  IF deletedIds = {}
           THEN resp' = [resp EXCEPT !.pc = "insert"]
           ELSE \E i \in latestDeleted : resp' = [resp EXCEPT !.pc = "update", !.id = i]

\* await run("UPDATE habits SET deleted_on = NULL, created_at = ? WHERE id = ?")
RestoreHabit ==
  /\ Suspended("createHabit", "update")
  /\ UNCHANGED <<checkins, clock>>
  /\ habits' = [habits EXCEPT ![resp.id].deleted_on = NULL,
                              ![resp.id].created_at = toISODate(clock)]
  /\ resp' = [resp EXCEPT !.status = 201, !.pc = "done"]

\* await run("INSERT INTO habits (name) VALUES (?) RETURNING id"): UNIQUE(name)
\* compares the names as they are written
InsertHabit ==
  /\ Suspended("createHabit", "insert")
  /\ UNCHANGED <<checkins, clock>>
  /\ IF \E i \in HabitIds : habits[i].name = resp.name
       THEN /\ resp' = [resp EXCEPT !.status = 409, !.pc = "done"]
            /\ UNCHANGED habits
       ELSE /\ Len(habits) < MaxHabits
            /\ habits' = Append(habits,
                           [id |-> Len(habits) + 1, name |-> resp.name,
                            created_at |-> toISODate(clock), deleted_on |-> NULL])
            /\ resp' = [resp EXCEPT !.status = 201, !.pc = "done", !.id = Len(habits) + 1]

\* the request in flight after another client's write
Overtaken == [resp EXCEPT !.overtaken = TRUE]

MayOvertake == ~Idle /\ resp.status = 0 /\ ~resp.overtaken

\* another client's PUT /api/checklist for today, run while the request is suspended
OtherPutChecklist(habitId, completed) ==
  LET date == toISODate(clock)
  IN  /\ MayOvertake
      /\ habitId \in {i \in HabitIds : isHabitActiveOnDate(habits[i], date)}
      /\ checkins' =
           {r \in checkins : ~(r.habit_id = habitId /\ r.date = date)}
           \cup {[habit_id |-> habitId, date |-> date,
                  completed |-> IF completed THEN 1 ELSE 0]}
      /\ checkins' # checkins
      /\ resp' = Overtaken
      /\ UNCHANGED <<habits, clock>>

\* another client's DELETE of an active habit, run while the request is suspended
OtherDeleteHabit(habitId) ==
  /\ MayOvertake
  /\ habitId \in HabitIds
  /\ habits[habitId].deleted_on = NULL
  /\ habits' = [habits EXCEPT ![habitId].deleted_on = toISODate(clock)]
  /\ resp' = Overtaken
  /\ UNCHANGED <<checkins, clock>>

\* another client's POST /api/habits that reactivates or inserts a habit,
\* run while the request is suspended
OtherCreateHabit(name) ==
  LET existingActive == {i \in HabitIds :
                           Lower(habits[i].name) = Lower(name) /\ habits[i].deleted_on = NULL}
      deletedIds     == {i \in HabitIds :
                           Lower(habits[i].name) = Lower(name) /\ habits[i].deleted_on # NULL}
      latestDeleted  == {i \in deletedIds :
                           \A j \in deletedIds : IsoLE(habits[j].deleted_on, habits[i].deleted_on)}
      today          == toISODate(clock)
  IN  /\ MayOvertake
      /\ existingActive = {}
      /\ IF deletedIds # {}
           THEN \E i \in latestDeleted :
                  habits' = [habits EXCEPT ![i].deleted_on = NULL, ![i].created_at = today]
           ELSE /\ Len(habits) < MaxHabits
                /\ habits' = Append(habits,
                               [id |-> Len(habits) + 1, name |-> name,
                                created_at |-> today, deleted_on |-> NULL])
      /\ resp' = Overtaken
      /\ UNCHANGED <<checkins, clock>>

\* the client takes the response of a handler that has answered
TakeResponse ==
  /\ ~Idle
  /\ resp.status # 0
  /\ resp' = NoResp
  /\ UNCHANGED <<habits, checkins, clock>>

\* the stores the requests find: the habits of a snapshot on the second day
\* of the clock, before any check-in
InitAwait ==
  /\ clock = FirstDay + 1
  /\ habits \in SnapshotHabits(clock)
  /\ checkins = {}
  /\ resp = NoResp

NextAwait ==
  \/ \E habitId \in 1..SnapHabits, year \in Years : BeginHabitSummary(habitId, year)
  \/ ReadAllHabits
  \/ ReadPeriods
  \/ ReadWeekly
  \/ ReadMonthly
  \/ ReadCompletions
  \/ ReadLifetime
  \/ ReadComparison
  \/ \E name \in Names : BeginCreateHabit(name)
  \/ FindDeleted
  \/ RestoreHabit
  \/ InsertHabit
  \/ \E habitId \in 1..SnapHabits, completed \in BOOLEAN : OtherPutChecklist(habitId, completed)
  \/ \E habitId \in 1..SnapHabits : OtherDeleteHabit(habitId)
  \/ \E name \in Names : OtherCreateHabit(name)
  \/ TakeResponse

SpecAwait == InitAwait /\ [][NextAwait]_vars
(***************************************************************************)
(* Properties.  Days are counted by epoch day; the ISO date of a day is    *)
(* CivilFromDays of it.                                                    *)
(***************************************************************************)
Min(a, b) == IF a < b THEN a ELSE b

Max(a, b) == IF a > b THEN a ELSE b

\* the habit has a check-in record with completed = true on the day
CompletedOn(habitId, day) ==
  \E r \in checkins : r.habit_id = habitId /\ r.date = CivilFromDays(day) /\ r.completed = 1

\* the habit was created on or before the day and is not deleted on or before it
ActiveOn(habit, day) ==
  /\ fromISODate(habit.created_at) <= day
  /\ (habit.deleted_on = NULL \/ day < fromISODate(habit.deleted_on))

\* the value is 100 * completed / total to the nearest tenth (in tenths)
IsRoundedPercent(value, completed, total) ==
  /\ 2 * value * total <= 2000 * completed + total
  /\ 2000 * completed - total <= 2 * value * total

\* C2: for min(end, today) >= start, buildPeriodSummary returns total = the
\* number of days in [start, min(end, today)] and completed = the number of
\* those days with a record of the habit that is completed; a day without a
\* record, or with a record that is not completed, adds to total alone.
C2_PeriodCounts ==
  resp.op = "buildPeriodSummary" /\ Min(resp.end, resp.today) >= resp.start =>
    LET days == resp.start..Min(resp.end, resp.today)
    IN  /\ resp.result.total = Cardinality(days)
        /\ resp.result.completed =
             Cardinality({d \in days : CompletedOn(resp.habitId, d)})

\* a range of three days holding one completed day, one day with a record
\* that is not completed and one day without a record
C2_Witness ==
  /\ resp.op = "buildPeriodSummary"
  /\ resp.result.total = 3
  /\ resp.result.completed = 1
  /\ \E r \in checkins :
       /\ r.habit_id = resp.habitId /\ r.completed = 0
       /\ fromISODate(r.date) \in resp.start..Min(resp.end, resp.today)

\* C3: buildAllPeriodSummary returns total = the number of pairs (habit, day
\* of [start, min(end, today)]) with the habit active on the day, and
\* completed = the number of those pairs with a completed record.
C3_AllPeriodCounts ==
  resp.op = "buildAllPeriodSummary" =>
    LET days  == resp.start..Min(resp.end, resp.today)
        pairs == {p \in HabitIds \X days : ActiveOn(habits[p[1]], p[2])}
    IN  /\ resp.result.total = Cardinality(pairs)
        /\ resp.result.completed =
             Cardinality({p \in pairs : CompletedOn(habits[p[1]].id, p[2])})

\* the range holds a day without an active habit, a completed pair, and a
\* completed record of a habit on a day it is not active
C3_Witness ==
  /\ resp.op = "buildAllPeriodSummary"
  /\ resp.result.completed >= 1
  /\ LET days == resp.start..Min(resp.end, resp.today)
     IN  /\ \E d \in days : \A i \in HabitIds : ~ActiveOn(habits[i], d)
         /\ \E d \in days, i \in HabitIds :
              ~ActiveOn(habits[i], d) /\ CompletedOn(habits[i].id, d)

\* C4: when min(end, today) < start, both functions return {0, 0, 0}.
C4_EmptyRangeIsZero ==
  /\ resp.op \in {"buildPeriodSummary", "buildAllPeriodSummary"}
  /\ Min(resp.end, resp.today) < resp.start
  => resp.result = [completed |-> 0, total |-> 0, consistency |-> 0]

\* a range that lies after today, whose days hold a completed record
C4_Witness ==
  /\ resp.op = "buildPeriodSummary"
  /\ resp.today < resp.start
  /\ resp.start <= resp.end
  /\ \E d \in resp.start..resp.end : CompletedOn(resp.habitId, d)

\* C5: every summary has 0 <= completed <= total, consistency 0 when total
\* is 0 and 100 * completed / total rounded to one decimal otherwise, and a
\* consistency within [0, 100].
C5_ConsistencyRounded ==
  resp.op \in {"buildPeriodSummary", "buildAllPeriodSummary"} =>
    LET r == resp.result
    IN  /\ 0 <= r.completed /\ r.completed <= r.total
        /\ r.total = 0 => r.consistency = 0
        /\ r.total > 0 => IsRoundedPercent(r.consistency, r.completed, r.total)
        /\ 0 <= r.consistency /\ r.consistency <= 1000

\* two of three days completed: 66.666... is answered as 66.7
C5_Witness ==
  /\ resp.op \in {"buildPeriodSummary", "buildAllPeriodSummary"}
  /\ resp.result.total = 3
  /\ resp.result.completed = 2
  /\ resp.result.consistency = 667

(***************************************************************************)
(* Properties of the summary responses.                                    *)
(***************************************************************************)
IsHabitSummary == resp.op = "habitSummary" /\ resp.status = 200

IsAllSummary == resp.op = "summary" /\ Len(habits) > 0

\* today, or the day before deleted_on once the habit is deleted
EffectiveToday(habit) ==
  IF habit.deleted_on # NULL /\ fromISODate(habit.deleted_on) <= clock
    THEN fromISODate(habit.deleted_on) - 1
    ELSE clock

\* the Monday on or before the day (1970-01-05 was a Monday)
MondayOf(day) == day - ((day - 4) % 7)

FirstOfMonth(year, month) == DaysFromCivil(year, month, 1)

LastOfMonth(year, month) ==
  IF month = 12 THEN DaysFromCivil(year + 1, 1, 1) - 1
                ELSE DaysFromCivil(year, month + 1, 1) - 1

\* the days of [lo, hi] up to today on which the habit is active
ActiveDays(habit, lo, hi) == {d \in lo..hi : ActiveOn(habit, d) /\ d <= clock}

\* C1: every PeriodSummary of the single-habit summary has total = the
\* number of days of its window on which the habit is active and that are
\* not after today (no day before createdAt is counted).
C1_TotalsCountActiveDays ==
  IsHabitSummary =>
    LET habit == habits[resp.habitId]
        eff   == EffectiveToday(habit)
        week  == MondayOf(eff)
        ym    == CivilFromDays(eff)
        body  == resp.body
    IN  /\ body.year.total =
             Cardinality(ActiveDays(habit, FirstOfMonth(resp.year, 1),
                                    LastOfMonth(resp.year, 12)))
        /\ body.currentWeek.total = Cardinality(ActiveDays(habit, week, week + 6))
        /\ body.currentMonth.total =
             Cardinality(ActiveDays(habit, FirstOfMonth(ym[1], ym[2]),
                                    LastOfMonth(ym[1], ym[2])))
        /\ \A k \in 1..8 :
             body.weekly[k].total =
               Cardinality(ActiveDays(habit, week - 7 * (8 - k), week - 7 * (8 - k) + 6))
        /\ \A m \in 1..12 :
             body.monthly[m].total =
               Cardinality(ActiveDays(habit, FirstOfMonth(resp.year, m),
                                      LastOfMonth(resp.year, m)))

\* the habit of 2024-01-01 with its first three days completed, seen on 01-05
FirstWeekExample ==
  /\ clock = Jan(5)
  /\ Len(habits) = 1
  /\ habits[1].created_at = <<2024, 1, 1>>
  /\ habits[1].deleted_on = NULL
  /\ \A d \in Jan(1)..Jan(5) : CompletedOn(1, d) <=> d <= Jan(3)

\* C6: the year entry of the single-habit summary for year Y is the period
\* summary over [max(Y-01-01, createdAt), min(Y-12-31, today)], today being
\* the handler's (effective) today; the habit of 2024-01-01 with three
\* completed days has year = {3, 5, 60.0} for 2024 on 2024-01-05.
C6_YearEntry ==
  IsHabitSummary =>
    LET habit == habits[resp.habitId]
        lo    == Max(FirstOfMonth(resp.year, 1), fromISODate(habit.created_at))
        hi    == Min(LastOfMonth(resp.year, 12), EffectiveToday(habit))
        done  == Cardinality({d \in lo..hi : CompletedOn(habit.id, d)})
        all   == Cardinality(lo..hi)
        year  == resp.body.year
    IN  /\ year.total = all
        /\ year.completed = done
        /\ all = 0 => year.consistency = 0
        /\ all > 0 => IsRoundedPercent(year.consistency, done, all)
        /\ FirstWeekExample /\ resp.year = 2024 =>
             year = [completed |-> 3, total |-> 5, consistency |-> 600]

\* the example, its fourth day unchecked again and its fifth never checked
C6_Witness ==
  /\ IsHabitSummary
  /\ FirstWeekExample
  /\ resp.year = 2024
  /\ resp.body.year.total = 5
  /\ [habit_id |-> 1, date |-> <<2024, 1, 4>>, completed |-> 0] \in checkins
  /\ \A r \in checkins : r.date # <<2024, 1, 5>>

\* the habit of 2024-03-10 completed on every day through 2024-03-20
MarchExample ==
  /\ Len(habits) = 1
  /\ habits[1].created_at = <<2024, 3, 10>>
  /\ habits[1].deleted_on = NULL
  /\ \A d \in Mar(1)..Mar(31) : CompletedOn(1, d) <=> (Mar(10) <= d /\ d <= Mar(20))

\* C7: currentStreak of the single-habit summary is the number of
\* consecutive completed days ending at effective today, not going before
\* createdAt; 11 on 2024-03-20 and 0 on 2024-03-25 for the habit of
\* 2024-03-10 completed through 2024-03-20.
C7_CurrentStreak ==
  IsHabitSummary =>
    LET habit   == habits[resp.habitId]
        eff     == EffectiveToday(habit)
        created == fromISODate(habit.created_at)
        streak  == resp.body.currentStreak
    IN  /\ streak >= 0
        /\ \A i \in 0..(streak - 1) : eff - i >= created /\ CompletedOn(habit.id, eff - i)
        /\ eff - streak < created \/ ~CompletedOn(habit.id, eff - streak)
        /\ MarchExample /\ clock = Mar(20) => streak = 11
        /\ MarchExample /\ clock = Mar(25) => streak = 0

C7_Witness ==
  /\ IsHabitSummary
  /\ MarchExample
  /\ clock = Mar(20)
  /\ resp.body.currentStreak = 11

\* the runs of completed days within [lo, hi], as pairs <<first, last>>
CompletedRuns(habitId, lo, hi) ==
  {run \in (lo..hi) \X (lo..hi) :
     run[1] <= run[2] /\ \A d \in run[1]..run[2] : CompletedOn(habitId, d)}

\* C8: longestStreak of the single-habit summary is the length of the
\* longest run of consecutive completed days within [createdAt, effective
\* today], 0 when there is none.
C8_LongestStreak ==
  IsHabitSummary =>
    LET habit   == habits[resp.habitId]
        runs    == CompletedRuns(habit.id, fromISODate(habit.created_at),
                                 EffectiveToday(habit))
        longest == resp.body.longestStreak
    IN  /\ \A run \in runs : run[2] - run[1] + 1 <= longest
        /\ \/ longest = 0 /\ runs = {}
           \/ \E run \in runs : run[2] - run[1] + 1 = longest

\* a completed day before createdAt next to a completed first day: the run
\* of two days counts for one
C8_Witness ==
  /\ IsHabitSummary
  /\ resp.body.longestStreak = 1
  /\ LET habit == habits[resp.habitId]
         created == fromISODate(habit.created_at)
     IN  /\ CompletedOn(habit.id, created - 1)
         /\ CompletedOn(habit.id, created)

SomeActive(day) == \E i \in HabitIds : ActiveOn(habits[i], day)

\* at least one habit is active on the day and every active one is completed
AllDone(day) ==
  /\ SomeActive(day)
  /\ \A i \in HabitIds : ActiveOn(habits[i], day) => CompletedOn(habits[i].id, day)

\* habit 1 of 2024-01-01 and habit 2 of 2024-01-15, seen on 2024-01-20, each
\* completed from 01-06 (habit 2: from its creation) through 01-19 and
\* habit 1 on 01-03 and 01-04 but not before
TwoHabitsExample ==
  /\ clock = Jan(20)
  /\ Len(habits) = 2
  /\ habits[1].created_at = <<2024, 1, 1>> /\ habits[1].deleted_on = NULL
  /\ habits[2].created_at = <<2024, 1, 15>> /\ habits[2].deleted_on = NULL
  /\ \A d \in Jan(6)..Jan(19) : AllDone(d)
  /\ CompletedOn(1, Jan(3)) /\ CompletedOn(1, Jan(4))
  /\ ~CompletedOn(1, Jan(1)) /\ ~CompletedOn(1, Jan(2))
  /\ \A d \in Jan(1)..Jan(14) : ~CompletedOn(2, d)

\* C9: the combined currentStreak is the number of days, walking back from
\* today, on which some habit is active and every active habit is
\* completed, up to the first day that is not such a day; in the example
\* 2024-01-20 counts only with both habits completed and 2024-01-05 counts
\* with habit 1 alone completed.
C9_AllCurrentStreak ==
  IsAllSummary =>
    LET streak == resp.body.currentStreak
    IN  /\ streak >= 0
        /\ \A i \in 0..(streak - 1) : AllDone(clock - i)
        /\ ~AllDone(clock - streak)
        /\ TwoHabitsExample =>
             /\ streak >= 1 <=> (CompletedOn(1, Jan(20)) /\ CompletedOn(2, Jan(20)))
             /\ streak >= 16 <=>
                  (CompletedOn(1, Jan(20)) /\ CompletedOn(2, Jan(20)) /\ CompletedOn(1, Jan(5)))

\* the example with every day completed: the walk passes 01-20 (two
\* completions) and 01-05 (one) and stops at 01-02
C9_Witness ==
  /\ IsAllSummary
  /\ TwoHabitsExample
  /\ resp.body.currentStreak = 18

\* the days from the earliest createdAt to today with an active habit
DaysWithActive ==
  {d \in fromISODate(EarliestCreated(habits))..clock : SomeActive(d)}

\* C10: the combined longestStreak is the largest number of days with an
\* active habit that follow one another, days without an active habit left
\* out, and on which every active habit is completed.
C10_AllLongestStreak ==
  IsAllSummary =>
    LET days    == DaysWithActive
        runs    == {run \in days \X days :
                      /\ run[1] <= run[2]
                      /\ \A d \in days : run[1] <= d /\ d <= run[2] => AllDone(d)}
        Size(run) == Cardinality({d \in days : run[1] <= d /\ d <= run[2]})
        longest == resp.body.longestStreak
    IN  /\ \A run \in runs : Size(run) <= longest
        /\ \/ longest = 0 /\ runs = {}
           \/ \E run \in runs : Size(run) = longest

\* two completed days with a day without an active habit between them
C10_Witness ==
  /\ IsAllSummary
  /\ resp.body.longestStreak = 2
  /\ \E gap \in DaysWithActive \cup {clock - 1} :
       ~SomeActive(gap) /\ AllDone(gap - 1) /\ AllDone(gap + 1)

(***************************************************************************)
(* Properties of the insights, the comparison and the breakdowns.          *)
(***************************************************************************)
\* 0 for a Sunday, 1 for a Monday, ..., 6 for a Saturday
WeekdayOf(day) == (day - MondayOf(day) + 1) % 7

\* the days of the year up to today
YearDays(year) == FirstOfMonth(year, 1)..Min(LastOfMonth(year, 12), clock)

IsRate(rate, done, total) ==
  IF total = 0 THEN rate = 0 ELSE IsRoundedPercent(rate, done, total)

\* C11: in the weekday insight of both summaries each weekday's total is the
\* number of active-habit-days of that weekday within [Y-01-01, min(Y-12-31,
\* today)] (a day before createdAt adds nothing), done the number of them
\* that are completed, and rate the rounded percentage, 0 when total = 0.
C11_WeekdayStats ==
  /\ IsHabitSummary =>
       LET habit == habits[resp.habitId]
           stats == HabitWeekdayStats(resp.habitId, resp.year)
       IN  \A w \in 0..6 :
             LET days == {d \in YearDays(resp.year) : WeekdayOf(d) = w /\ ActiveOn(habit, d)}
                 done == Cardinality({d \in days : CompletedOn(habit.id, d)})
             IN  /\ stats[w].total = Cardinality(days)
                 /\ stats[w].done = done
                 /\ IsRate(stats[w].rate, done, Cardinality(days))
  /\ IsAllSummary =>
       LET stats == AllWeekdayStats(resp.year)
       IN  \A w \in 0..6 :
             LET pairs == {p \in HabitIds \X {d \in YearDays(resp.year) : WeekdayOf(d) = w} :
                             ActiveOn(habits[p[1]], p[2])}
                 done  == Cardinality({p \in pairs : CompletedOn(habits[p[1]].id, p[2])})
             IN  /\ stats[w].total = Cardinality(pairs)
                 /\ stats[w].done = done
                 /\ IsRate(stats[w].rate, done, Cardinality(pairs))

\* the first weekday, Sun first, whose rate is the highest
FirstWithMaxRate(stats) ==
  CHOOSE w \in 0..6 :
    /\ \A v \in 0..6 : stats[v].rate <= stats[w].rate
    /\ \A v \in 0..(w - 1) : stats[v].rate < stats[w].rate

\* the first weekday, Sun first, whose rate is the lowest
FirstWithMinRate(stats) ==
  CHOOSE w \in 0..6 :
    /\ \A v \in 0..6 : stats[v].rate >= stats[w].rate
    /\ \A v \in 0..(w - 1) : stats[v].rate > stats[w].rate

DayNames == [w \in 0..6 |-> weekdayNames[w + 1]]

BestAndMissedOf(body, stats) ==
  /\ body.bestDay = DayNames[FirstWithMaxRate(stats)]
  /\ body.missedDay = DayNames[FirstWithMinRate(stats)]
  /\ (\A w \in 0..6 : stats[w].rate = 1000) =>
       body.bestDay = "Sun" /\ body.missedDay = "Sun"

\* C12: bestDay is the first weekday in the order Sun..Sat whose rate is the
\* maximum and the missed day the first whose rate is the minimum; both are
\* "Sun" when every weekday has rate 100.
C12_BestAndMissedDay ==
  /\ IsHabitSummary =>
       BestAndMissedOf(resp.body, HabitWeekdayStats(resp.habitId, resp.year))
  /\ IsAllSummary => BestAndMissedOf(resp.body, AllWeekdayStats(resp.year))

\* a full week completed: every weekday at 100
C12_Witness ==
  /\ IsHabitSummary
  /\ \A w \in 0..6 : HabitWeekdayStats(resp.habitId, resp.year)[w].rate = 1000
  /\ resp.body.bestDay = "Sun"
  /\ resp.body.missedDay = "Sun"

IsSummary == IsHabitSummary \/ IsAllSummary

\* the entries of a comparison list that are about the habit
EntriesOf(list, habit) == {k \in DOMAIN list : list[k].habitId = habit.id}

\* C13: habitComparison of both summaries has exactly one entry per habit,
\* its consistency that of the period summary of the habit's records over
\* [max(Y-01-01, createdAt), Y-12-31] capped at the current date of the
\* request.
C13_ComparisonEntries ==
  IsSummary =>
    LET list == resp.body.habitComparison
    IN  /\ Len(list) = Len(habits)
        /\ \A i \in HabitIds :
             LET habit == habits[i]
                 lo    == Max(FirstOfMonth(resp.year, 1), fromISODate(habit.created_at))
                 hi    == Min(LastOfMonth(resp.year, 12), clock)
                 done  == Cardinality({d \in lo..hi : CompletedOn(habit.id, d)})
             IN  /\ Cardinality(EntriesOf(list, habit)) = 1
                 /\ \A k \in EntriesOf(list, habit) :
                      IsRate(list[k].consistency, done, Cardinality(lo..hi))

Descending(list) ==
  \A k \in 1..(Len(list) - 1) : list[k].consistency >= list[k + 1].consistency

\* C14 as stated: the habitComparison list of a summary is ordered by
\* consistency, highest first.
C14_ComparisonRanked == IsSummary => Descending(resp.body.habitComparison)

\* C14: habitComparison of a summary is in the order of the habits' ids; the
\* list the client charts is a copy of it ordered by consistency, highest
\* first, entries of equal consistency in the order of their ids.
C14_RankedByClient ==
  /\ IsSummary =>
       \A k \in DOMAIN resp.body.habitComparison : resp.body.habitComparison[k].habitId = k
  /\ resp.op = "comparisonBar" =>
       /\ Descending(resp.comparison)
       /\ Len(resp.comparison) = Len(resp.habitComparison)
       /\ {resp.comparison[k] : k \in DOMAIN resp.comparison}
            = {resp.habitComparison[k] : k \in DOMAIN resp.habitComparison}
       /\ \A k \in 1..(Len(resp.comparison) - 1) :
            resp.comparison[k].consistency = resp.comparison[k + 1].consistency =>
              resp.comparison[k].habitId < resp.comparison[k + 1].habitId

\* the habit with the higher id has the higher consistency and is charted first
C14_Witness ==
  /\ resp.op = "comparisonBar"
  /\ resp.habitComparison[1].consistency < resp.habitComparison[2].consistency
  /\ resp.comparison[1] = resp.habitComparison[2]

\* C15: the habitComparison entry of a soft-deleted habit counts only days
\* on which the habit was active, none from its deletedOn on, so that its
\* consistency stays what it was on the day before the deletion.
C15_DeletedComparisonStable ==
  IsSummary =>
    LET list == resp.body.habitComparison
    IN  \A i \in HabitIds :
          habits[i].deleted_on # NULL =>
            LET habit == habits[i]
                days  == {d \in YearDays(resp.year) : ActiveOn(habit, d)}
                done  == Cardinality({d \in days : CompletedOn(habit.id, d)})
            IN  \A k \in EntriesOf(list, habit) :
                  IsRate(list[k].consistency, done, Cardinality(days))

\* today as the handler that answered has it
HandlerToday ==
  IF resp.op = "habitSummary" THEN EffectiveToday(habits[resp.habitId]) ELSE clock

WindowLabel(start, end) == <<CivilFromDays(start), "to", CivilFromDays(end)>>

\* the counts of a summary over the days lo..hi: of the habit asked for, or
\* of every habit on the days it is active
CountsOver(summary, lo, hi) ==
  IF resp.op = "habitSummary"
    THEN /\ summary.total = Cardinality(lo..hi)
         /\ summary.completed = Cardinality({d \in lo..hi : CompletedOn(resp.habitId, d)})
    ELSE LET pairs == {p \in HabitIds \X (lo..hi) : ActiveOn(habits[p[1]], p[2])}
         IN  /\ summary.total = Cardinality(pairs)
             /\ summary.completed =
                  Cardinality({p \in pairs : CompletedOn(habits[p[1]].id, p[2])})

C17_MonthlyEntries ==
  IsHabitSummary =>
    LET habit   == habits[resp.habitId]
        today   == HandlerToday
        created == fromISODate(habit.created_at)
        monthly == resp.body.monthly
    IN  /\ Len(monthly) = 12
        /\ \A m \in 1..12 :
             LET first == FirstOfMonth(resp.year, m)
                 last  == LastOfMonth(resp.year, m)
                 entry == monthly[m]
             IN  /\ entry.label = <<monthNames[m], resp.year>>
                 /\ CountsOver(entry, Max(first, created), Min(last, today))
                 /\ IsRate(entry.consistency, entry.completed, entry.total)
                 /\ last < created \/ first > today =>
                      /\ entry.completed = 0 /\ entry.total = 0 /\ entry.consistency = 0

\* the habit of 2024-03-10 on 2024-03-20: nothing in February, eleven days
\* of March, nothing yet in April
C17_Witness ==
  /\ IsHabitSummary
  /\ MarchExample
  /\ clock = Mar(20)
  /\ resp.year = 2024
  /\ resp.body.monthly[2].total = 0
  /\ resp.body.monthly[3].total = 11 /\ resp.body.monthly[3].consistency = 1000
  /\ resp.body.monthly[4].total = 0

(***************************************************************************)
(* Properties of the store.                                                *)
(***************************************************************************)
\* the names are equal ignoring case
SameIgnoringCase(a, b) == a = b \/ {a, b} = {"run", "Run"}

ActiveNamed(name) ==
  {i \in HabitIds : SameIgnoringCase(habits[i].name, name) /\ habits[i].deleted_on = NULL}

DeletedNamed(name) ==
  {i \in HabitIds : SameIgnoringCase(habits[i].name, name) /\ habits[i].deleted_on # NULL}

\* a create request for the name of a deleted habit and of no active one
\* leaves the rows as they are but for the row it answers with, which has
\* deleted_on cleared and created_at set to today
Reactivates(name) ==
  CreateHabit(name) /\ DeletedNamed(name) # {} /\ ActiveNamed(name) = {} =>
    /\ resp'.status = 201
    /\ resp'.id \in DeletedNamed(name)
    /\ Len(habits') = Len(habits)
    /\ \A i \in HabitIds :
         habits'[i] = IF i = resp'.id
                        THEN [habits[i] EXCEPT !.deleted_on = NULL,
                                               !.created_at = CivilFromDays(clock)]
                        ELSE habits[i]
    /\ ActiveOn(habits'[resp'.id], clock)

\* the habit a create request has just answered with is active today, and
\* today is counted in its summaries and in the combined ones
CreatedIsCounted ==
  resp.op = "createHabit" /\ resp.status = 201 =>
    /\ ActiveOn(habits[resp.id], clock)
    /\ buildPeriodSummary(resp.id, clock, clock, clock).total = 1
    /\ HabitSummaryBody(resp.id, CivilFromDays(clock)[1]).year.total = 1
    /\ buildAllPeriodSummary(habits, CheckinsMapOf(checkins), clock, clock, clock).total
         = Cardinality({i \in HabitIds : ActiveOn(habits[i], clock)})

\* C18: creating a habit whose name equals, ignoring case, that of a
\* soft-deleted habit and of no active one adds no row: the deleted row is
\* reused with deletedOn cleared and createdAt = today, and the summaries
\* computed right after count the reactivation day in total.
C18_Reactivation ==
  /\ []CreatedIsCounted
  /\ [][\A name \in Names : Reactivates(name)]_vars

\* a habit just re-created, with a check-in from before its new createdAt
C18_Witness ==
  /\ resp.op = "createHabit"
  /\ resp.status = 201
  /\ habits[resp.id].created_at = CivilFromDays(clock)
  /\ habits[resp.id].deleted_on = NULL
  /\ \E r \in checkins : r.habit_id = resp.id /\ r.date = CivilFromDays(clock - 1)

NoDuplicateActive ==
  \A i, j \in HabitIds :
    i # j /\ habits[i].deleted_on = NULL /\ habits[j].deleted_on = NULL =>
      ~SameIgnoringCase(habits[i].name, habits[j].name)

Rejects(name) ==
  CreateHabit(name) /\ ActiveNamed(name) # {} => resp'.status = 409 /\ habits' = habits

\* C19: no two active habits ever have names equal ignoring case, and a
\* create request whose name matches an active habit ignoring case is
\* answered 409 and changes no habit row.
C19_UniqueActiveNames ==
  /\ []NoDuplicateActive
  /\ [][\A name \in Names : Rejects(name)]_vars

\* a create request refused while a re-created habit is active
C19_Witness ==
  /\ resp.op = "createHabit"
  /\ resp.status = 409
  /\ \E i \in HabitIds :
       /\ habits[i].deleted_on = NULL
       /\ \E r \in checkins : r.habit_id = i /\ r.date = CivilFromDays(clock - 1)
       /\ habits[i].created_at = CivilFromDays(clock)

OneRecordPerDay ==
  \A r, q \in checkins : r.habit_id = q.habit_id /\ r.date = q.date => r = q

\* an accepted check-in write leaves one record of the pair, with the value
\* written, and every other record as it was
Upserts(habitId, completed) ==
  LET date == CivilFromDays(clock)
      had  == \E r \in checkins : r.habit_id = habitId /\ r.date = date
      new  == [habit_id |-> habitId, date |-> date,
               completed |-> IF completed THEN 1 ELSE 0]
  IN  PutChecklist(habitId, date, completed) /\ resp'.status = 200 =>
        /\ new \in checkins'
        /\ Cardinality(checkins') = Cardinality(checkins) + (IF had THEN 0 ELSE 1)
        /\ \A r \in checkins : ~(r.habit_id = habitId /\ r.date = date) => r \in checkins'

\* C20: there is at most one check-in record per (habitId, date): a write
\* for a pair that has a record replaces its completed value and adds no
\* record, a write for a new pair adds exactly one.
C20_OneCheckinPerDay ==
  /\ []OneRecordPerDay
  /\ [][\A habitId \in 1..MaxHabits, completed \in BOOLEAN : Upserts(habitId, completed)]_vars

\* a write accepted today for a habit that has a record of yesterday too
C20_Witness ==
  /\ resp.op = "putChecklist"
  /\ resp.status = 200
  /\ \E r, q \in checkins :
       /\ r.habit_id = q.habit_id
       /\ r.date = CivilFromDays(clock) /\ r.completed = 0
       /\ q.date = CivilFromDays(clock - 1)

\* the check-in records dated before the day
RecordsBefore(rows, day) == {r \in rows : fromISODate(r.date) < day}

\* a check-in write for another date than today is refused and writes nothing
RefusesOtherDate(habitId, off, completed) ==
  PutChecklist(habitId, CivilFromDays(clock + off), completed) /\ off # 0 =>
    resp'.status = 400 /\ checkins' = checkins

\* C21: a check-in write whose date differs from the server's current date
\* is rejected and leaves every check-in record unchanged; once the current
\* date has passed a date, the records of that date never change again.
C21_PastIsImmutable ==
  /\ [][\A habitId \in 1..MaxHabits, off \in {-1, 1}, completed \in BOOLEAN :
          RefusesOtherDate(habitId, off, completed)]_vars
  /\ [][RecordsBefore(checkins', clock') = RecordsBefore(checkins, clock')]_vars

\* a write refused on a day that has a record of the day before
C21_Witness ==
  /\ resp.op = "putChecklist"
  /\ resp.status = 400
  /\ RecordsBefore(checkins, clock) # {}

\* a delete request for an active habit sets its deleted_on to today and
\* changes nothing else; for a deleted habit it changes nothing
SoftDeletes(habitId) ==
  DeleteHabit(habitId) /\ habitId \in HabitIds =>
    /\ resp'.status = 200
    /\ checkins' = checkins
    /\ Len(habits') = Len(habits)
    /\ \A i \in HabitIds : i # habitId => habits'[i] = habits[i]
    /\ IF habits[habitId].deleted_on # NULL
         THEN habits'[habitId] = habits[habitId]
         ELSE /\ habits'[habitId] =
                   [habits[habitId] EXCEPT !.deleted_on = CivilFromDays(clock)]
              /\ \A d \in (clock - 3)..(clock + 3) :
                   ActiveOn(habits'[habitId], d)
                     <=> (fromISODate(habits[habitId].created_at) <= d /\ d < clock)

\* C22: DELETE on an active habit changes only that habit's deletedOn, set
\* to today (inactive today and later, active from createdAt to yesterday),
\* and no check-in record and no other habit; on a deleted habit it reports
\* success and changes nothing.
C22_SoftDelete == [][\A habitId \in 1..MaxHabits : SoftDeletes(habitId)]_vars

\* a habit of yesterday deleted today, its check-in of yesterday kept
C22_Witness ==
  /\ resp.op = "deleteHabit"
  /\ resp.status = 200
  /\ \E i \in HabitIds :
       /\ habits[i].deleted_on = CivilFromDays(clock)
       /\ habits[i].created_at = CivilFromDays(clock - 1)
       /\ \E r \in checkins : r.habit_id = i /\ r.date = CivilFromDays(clock - 1)

IsStreak == resp.op = "streak"

\* C25: the current streak never exceeds the longest streak, in the summary
\* of one habit (also when its effective today is before its createdAt) and
\* in the combined summary.
C25_CurrentWithinLongest ==
  /\ IsHabitSummary => resp.body.currentStreak <= resp.body.longestStreak
  /\ resp.op = "summary" => resp.body.currentStreak <= resp.body.longestStreak

\* a combined summary whose current run is shorter than an earlier one
C25_Witness ==
  /\ IsAllSummary
  /\ resp.body.currentStreak = 1
  /\ resp.body.longestStreak >= 2

\* C26: the streak GET /api/streak answers with equals the currentStreak of
\* GET /api/summary on the same store, whatever the year asked for; both are
\* 0 when there is no habit.
C26_StreakIsCurrentStreak ==
  /\ IsStreak =>
       \A year \in Years :
         resp.body.streak =
           (IF Len(habits) = 0 THEN EmptySummaryBody ELSE AllSummaryBody(year)).currentStreak
  /\ resp.op = "summary" => resp.body.currentStreak = StreakBody.streak
  /\ Len(habits) = 0 /\ IsStreak => resp.body.streak = 0

\* a streak of two days or more over two habits
C26_Witness ==
  /\ IsStreak
  /\ Len(habits) = 2
  /\ resp.body.streak >= 2

\* the days from the earliest created_at to today, inclusive
DaysSinceEarliest == clock - fromISODate(EarliestCreated(habits)) + 1

\* C27: the backward walk of the combined current streak ends: it stops no
\* later than the day before the earliest createdAt, so the streak is at
\* most the number of days from the earliest createdAt to today.
C27_WalkBounded ==
  /\ IsAllSummary => resp.body.currentStreak <= DaysSinceEarliest
  /\ IsStreak /\ Len(habits) > 0 => resp.body.streak <= DaysSinceEarliest

\* the walk reaches the earliest created_at and stops there
C27_Witness ==
  /\ IsAllSummary
  /\ DaysSinceEarliest >= 2
  /\ resp.body.currentStreak = DaysSinceEarliest

RECURSIVE SumOver(_, _, _)
SumOver(entries, field, k) ==
  IF k = 0 THEN 0 ELSE entries[k][field] + SumOver(entries, field, k - 1)

MonthsAddUp(body) ==
  /\ SumOver(body.monthly, "total", Len(body.monthly)) = body.year.total
  /\ SumOver(body.monthly, "completed", Len(body.monthly)) = body.year.completed

\* C28: the totals of the monthly entries add up to the year's total and
\* their completed counts to the year's completed, in the summary of one
\* habit and in the combined summary.
C28_MonthsSumToYear ==
  /\ IsHabitSummary => MonthsAddUp(resp.body)
  /\ resp.op = "summary" => MonthsAddUp(resp.body)

\* a year with days in two months
C28_Witness ==
  /\ IsHabitSummary
  /\ resp.body.monthly[1].total = 2
  /\ resp.body.monthly[2].total = 2
  /\ resp.body.year.completed >= 2

\* the store holds one habit that was never deleted and never reactivated
\* (no check-in is older than its created_at)
OneLiveHabit ==
  /\ Len(habits) = 1
  /\ habits[1].deleted_on = NULL
  /\ \A r \in checkins : IsoLE(habits[1].created_at, r.date)

\* C29: with exactly one habit, never deleted or reactivated, the combined
\* summary and that habit's summary agree on year, currentWeek,
\* currentMonth, weekly, monthly, currentStreak and longestStreak, also
\* when the habit was created in the middle of a week or month.
C29_OneHabitAgrees ==
  IsHabitSummary /\ OneLiveHabit =>
    LET all == AllSummaryBody(resp.year)
        one == resp.body
    IN  /\ one.year = all.year
        /\ one.currentWeek = all.currentWeek
        /\ one.currentMonth = all.currentMonth
        /\ one.weekly = all.weekly
        /\ one.monthly = all.monthly
        /\ one.currentStreak = all.currentStreak
        /\ one.longestStreak = all.longestStreak

\* the completed check-ins of the habit on days on which it is active
ActiveCompletions(habitId) ==
  {r \in checkins :
     /\ r.habit_id = habitId
     /\ r.completed = 1
     /\ ActiveOn(habits[habitId], fromISODate(r.date))}

\* C30: lifetimeCompletions of a habit's summary is the number of its
\* completed check-ins on days on which it is active, which is what it
\* adds to the combined lifetimeCompletions; a completed check-in from
\* before a reactivation's createdAt or on the day of the deletion counts
\* in neither.
C30_LifetimeOnActiveDays ==
  /\ IsHabitSummary =>
       resp.body.lifetimeCompletions = Cardinality(ActiveCompletions(resp.habitId))
  /\ IsHabitSummary /\ Len(habits) = 1 =>
       resp.body.lifetimeCompletions = AllSummaryBody(resp.year).lifetimeCompletions
  /\ IsAllSummary =>
       resp.body.lifetimeCompletions =
         Cardinality(UNION {ActiveCompletions(i) : i \in HabitIds})

\* C23: every part of one summary response is computed from one state of
\* the store: when a check-in write, a delete or a reactivation runs between
\* the handler's awaits, the response is the summary of the store before
\* the write or of the store after it, never parts of both.
C23_OneSnapshot ==
  resp.op = "habitSummary" /\ resp.status = 200 =>
    resp.body \in {resp.atRequest, HabitSummaryBody(resp.habitId, resp.year)}

\* C24: two create requests whose names are equal ignoring case, the one run
\* between the other's existence checks and its insert or update, leave at
\* most one active habit with that name ignoring case.
C24_ConcurrentCreateUnique ==
  resp.op = "createHabit" /\ resp.status \in {201, 409} =>
    \A name \in Names : Cardinality(ActiveNamed(name)) <= 1
====
